---- MODULE Spec2Model ----
(***************************************************************************)
(* A model of addons_daily/utils/helpers.py: the histogram averager        *)
(* (histogram_mean, get_hist_avg), the metric table joiner                 *)
(* (dataframe_joiner), the co-install helpers (take_top_ten,               *)
(* list_expander) and the trend metrics exercised by test_trend_metrics.   *)
(* Every helper is a pure function of its arguments; each has its own      *)
(* specification whose Init draws the arguments from bounded sets and      *)
(* whose actions run the function as the code runs it.                     *)
(***************************************************************************)
EXTENDS Integers, Sequences, FiniteSets, TLC

VARIABLES
    hm_pc, values, hm_result,                 \* histogram_mean(values)
    ga_pc, hist, just_keyed_hist, hist_data,  \* get_hist_avg(hist, just_keyed_hist)
    jn_pc, dfs, left, jn_next,                \* dataframe_joiner(dfs)
    tt_pc, l, tt_result,                      \* take_top_ten(l)
    le_pc, lis, le_next, list_of_lists,       \* list_expander(lis)
    tr_pc, tr_records, tr_result              \* get_trend_metrics(records, date)

hm_vars == <<hm_pc, values, hm_result>>
ga_vars == <<ga_pc, hist, just_keyed_hist, hist_data>>
jn_vars == <<jn_pc, dfs, left, jn_next>>
tt_vars == <<tt_pc, l, tt_result>>
le_vars == <<le_pc, lis, le_next, list_of_lists>>
tr_vars == <<tr_pc, tr_records, tr_result>>
vars == <<hm_vars, ga_vars, jn_vars, tt_vars, le_vars, tr_vars>>

\* ------------------------------------------------------------------------
\* Generic helpers on sequences.

\* The sequences over S of length 0..n.
SeqsUpTo(S, n) == UNION {[1..k -> S] : k \in 0..n}

\* The elements of a sequence.
Range(s) == {s[i] : i \in DOMAIN s}

RECURSIVE SumSeq(_)
SumSeq(s) == IF s = <<>> THEN 0 ELSE s[1] + SumSeq(Tail(s))

RECURSIVE ProdSeq(_)
ProdSeq(s) == IF s = <<>> THEN 1 ELSE s[1] * ProdSeq(Tail(s))

\* ------------------------------------------------------------------------
\* histogram_mean: the mean of a bucket-label -> count mapping.

\* Bounds of the histogram inputs.
MaxBuckets == 2
MaxCount == 2

\* A bucket label is a string, here the tuple of its characters.
DigitChars == <<"0", "1", "2", "3", "4", "5", "6", "7", "8", "9">>

IsDigit(c) == \E i \in DOMAIN DigitChars : DigitChars[i] = c

DigitVal(c) == (CHOOSE i \in DOMAIN DigitChars : DigitChars[i] = c) - 1

\* The labels the inputs are drawn from: "10", "20", "100", "200", "-5",
\* "0", " 5", "1x" and "".
Labels ==
    { <<"1", "0">>, <<"2", "0">>, <<"1", "0", "0">>, <<"2", "0", "0">>,
      <<"-", "5">>, <<"0">>, <<" ", "5">>, <<"1", "x">>, <<>> }

\* str.strip(), which int() applies to its argument first.
RECURSIVE StripLeft(_)
StripLeft(s) ==
    IF s # <<>> /\ s[1] = " " THEN StripLeft(Tail(s)) ELSE s

RECURSIVE StripRight(_)
StripRight(s) ==
    IF s # <<>> /\ s[Len(s)] = " " THEN StripRight(SubSeq(s, 1, Len(s) - 1)) ELSE s

Strip(s) == StripRight(StripLeft(s))

\* The digits of a stripped literal, after its optional sign.
Unsigned(t) == IF t # <<>> /\ t[1] \in {"+", "-"} THEN Tail(t) ELSE t

\* int(k) succeeds: optional blanks, an optional sign, then one digit or more.
IsIntLiteral(k) ==
    LET d == Unsigned(Strip(k))
    IN  d # <<>> /\ \A i \in DOMAIN d : IsDigit(d[i])

RECURSIVE DigitsValue(_)
DigitsValue(d) ==
    IF d = <<>> THEN 0
    ELSE 10 * DigitsValue(SubSeq(d, 1, Len(d) - 1)) + DigitVal(d[Len(d)])

\* int(k) for a label int() accepts.
int(k) ==
    LET t == Strip(k)
    IN  IF t[1] = "-" THEN 0 - DigitsValue(Unsigned(t)) ELSE DigitsValue(Unsigned(t))

\* The argument: None, or a dict given as its items in iteration order.
NoneValues == [isNone |-> TRUE, items |-> <<>>]

Dict(items) == [isNone |-> FALSE, items |-> items]

Items == [k : Labels, v : 0..MaxCount]

IsDictItems(s) == \A i, j \in DOMAIN s : s[i].k = s[j].k => i = j

HistogramInputs ==
    {NoneValues} \cup {Dict(s) : s \in {t \in SeqsUpTo(Items, MaxBuckets) : IsDictItems(t)}}

\* The outcomes: None, a float (kept exact as numerator / denominator) or the
\* ValueError int() raises.
ReturnNone == [kind |-> "None", num |-> 0, den |-> 0]

ReturnFloat(n, d) == [kind |-> "float", num |-> n, den |-> d]

RaiseValueError == [kind |-> "ValueError", num |-> 0, den |-> 0]

Pending == [kind |-> "pending", num |-> 0, den |-> 0]

\* A loop that skips a label int() rejects instead of raising.
RECURSIVE hm_loop_skipping(_, _, _, _)
hm_loop_skipping(items, i, numerator, denominator) ==
    IF i > Len(items)
    THEN IF denominator = 0 THEN ReturnNone ELSE ReturnFloat(numerator, denominator)
    ELSE IF ~IsIntLiteral(items[i].k)
         THEN hm_loop_skipping(items, i + 1, numerator, denominator)
         ELSE hm_loop_skipping(items, i + 1, numerator + int(items[i].k) * items[i].v,
                               denominator + items[i].v)

\* A loop that forgets the zero-denominator check and returns 0 instead.
RECURSIVE hm_loop_zero(_, _, _, _)
hm_loop_zero(items, i, numerator, denominator) ==
    IF i > Len(items)
    THEN IF denominator = 0 THEN ReturnFloat(0, 1) ELSE ReturnFloat(numerator, denominator)
    ELSE IF ~IsIntLiteral(items[i].k)
         THEN RaiseValueError
         ELSE hm_loop_zero(items, i + 1, numerator + int(items[i].k) * items[i].v,
                           denominator + items[i].v)

\* A loop that adds the label without weighting it by its count.
RECURSIVE hm_loop_unweighted(_, _, _, _)
hm_loop_unweighted(items, i, numerator, denominator) ==
    IF i > Len(items)
    THEN IF denominator = 0 THEN ReturnNone ELSE ReturnFloat(numerator, denominator)
    ELSE IF ~IsIntLiteral(items[i].k)
         THEN RaiseValueError
         ELSE hm_loop_unweighted(items, i + 1, numerator + int(items[i].k),
                                 denominator + items[i].v)

\* Lines 114-121: the loop over values.items() from item i on, then the
\* denominator check and the division.
RECURSIVE hm_loop(_, _, _, _)
hm_loop(items, i, numerator, denominator) ==
    IF i > Len(items)
    THEN IF denominator = 0 THEN ReturnNone ELSE ReturnFloat(numerator, denominator)
    ELSE IF ~IsIntLiteral(items[i].k)
         THEN RaiseValueError
         ELSE hm_loop(items, i + 1, numerator + int(items[i].k) * items[i].v,
                      denominator + items[i].v)

histogram_mean(vals) ==
    IF vals.isNone THEN ReturnNone ELSE hm_loop(vals.items, 1, 0, 0)

HmIdle == hm_pc = "idle" /\ values = NoneValues /\ hm_result = Pending

HmInit == hm_pc = "call" /\ values \in HistogramInputs /\ hm_result = Pending

CallHistogramMean ==
    /\ hm_pc = "call"
    /\ hm_result' = histogram_mean(values)
    /\ hm_pc' = "done"
    /\ UNCHANGED <<values, ga_vars, jn_vars, tt_vars, le_vars, tr_vars>>

\* ------------------------------------------------------------------------
\* get_hist_avg: one histogram of the keyed-histogram records as a table.

MaxRecords == 3

HistNames == {"UPLOAD_BYTES", "PAGE_LOAD_MS"}

\* hist.lower() on the histogram names of the model.
lower(h) ==
    CASE h = "UPLOAD_BYTES" -> "upload_bytes"
      [] h = "PAGE_LOAD_MS" -> "page_load_ms"

\* "avg_" + hist.lower()
AvgColumn(h) ==
    CASE lower(h) = "upload_bytes" -> "avg_upload_bytes"
      [] lower(h) = "page_load_ms" -> "avg_page_load_ms"

HistAddons == <<"p", "q">>

\* The "values" the records hold: {"100": 1, "200": 1}, {} and {"1x": 1}.
SampleValues ==
    { Dict(<<[k |-> <<"1", "0", "0">>, v |-> 1], [k |-> <<"2", "0", "0">>, v |-> 1]>>),
      Dict(<<>>),
      Dict(<<[k |-> <<"1", "x">>, v |-> 1]>>) }

\* x[hist]: add-on -> {"values": ...}, as its items in iteration order; f gives
\* the values of the add-ons the map holds.
RECURSIVE KeyedItems(_, _)
KeyedItems(f, i) ==
    IF i > Len(HistAddons) THEN <<>>
    ELSE (IF i \in DOMAIN f THEN <<[addon |-> HistAddons[i], values |-> f[i]]>> ELSE <<>>)
         \o KeyedItems(f, i + 1)

KeyedMaps ==
    UNION { {KeyedItems(f, 1) : f \in [S -> SampleValues]} : S \in SUBSET DOMAIN HistAddons }

\* The other histogram of a record always holds the same entry.
OtherMap == <<[addon |-> "q", values |-> Dict(<<[k |-> <<"1", "0">>, v |-> 2]>>)]>>

\* A record x: histogram name -> keyed map, for the names it holds.
KeyedRecords ==
    LET Full == {[UPLOAD_BYTES |-> m, PAGE_LOAD_MS |-> OtherMap] : m \in KeyedMaps}
    IN  UNION { { [n \in S |-> x[n]] : S \in {{"UPLOAD_BYTES", "PAGE_LOAD_MS"},
                                              {"UPLOAD_BYTES"}, {"PAGE_LOAD_MS"}, {}} }
                : x \in Full }

RECURSIVE Flatten(_)
Flatten(ss) == IF ss = <<>> THEN <<>> ELSE ss[1] \o Flatten(Tail(ss))

\* Lines 134-135: the rows one x[hist] gives.
HistRows(m) ==
    [i \in DOMAIN m |-> [addon_id |-> m[i].addon, avg |-> histogram_mean(m[i].values)]]

\* Lines 131-145. A ValueError in one histogram_mean fails the whole job.
get_hist_avg(h, records) ==
    LET Has(x) == h \in DOMAIN x
        kept == SelectSeq(records, Has)
        rows == Flatten([i \in DOMAIN kept |-> HistRows(kept[i][h])])
        failed == \E i \in DOMAIN rows : rows[i].avg.kind = "ValueError"
    IN  [ failed |-> failed,
          columns |-> <<"addon_id", AvgColumn(h)>>,
          rows |-> IF failed THEN <<>> ELSE rows ]

NoTable == [failed |-> FALSE, columns |-> <<>>, rows |-> <<>>]

GaIdle ==
    ga_pc = "idle" /\ hist = "UPLOAD_BYTES" /\ just_keyed_hist = <<>> /\ hist_data = NoTable

GaInit ==
    /\ ga_pc = "call"
    /\ hist \in HistNames
    /\ just_keyed_hist \in SeqsUpTo(KeyedRecords, MaxRecords)
    /\ hist_data = NoTable

CallGetHistAvg ==
    /\ ga_pc = "call"
    /\ hist_data' = get_hist_avg(hist, just_keyed_hist)
    /\ ga_pc' = "done"
    /\ UNCHANGED <<hist, just_keyed_hist, hm_vars, jn_vars, tt_vars, le_vars, tr_vars>>

\* ------------------------------------------------------------------------
\* dataframe_joiner: the left join of a list of tables on "addon_id".
\* A table is its column names and its rows in order; a row maps every
\* column to its cell. The addon_id of a row is never null (the records
\* reach the helpers with an addon_id) and the tables of dfs share no column
\* but the key.

MaxTables == 3
MaxRows == 2

Addons == {"x", "y"}

\* The metric column of the k-th table of dfs: the tables share no column but
\* the key.
MetricCols == <<"m1", "m2", "m3", "m4", "m5", "m6">>

\* A cell of a metric column: null, or a value.
Null == [isnull |-> TRUE, v |-> 0]

Val(n) == [isnull |-> FALSE, v |-> n]

\* The value row j of the k-th table holds in its metric column.
Token(k, j) == 10 * k + j

\* The k-th table, whose rows have the add-on ids `ids`, in order.
MakeTable(k, ids) ==
    [ columns |-> <<"addon_id", MetricCols[k]>>,
      rows |-> [j \in DOMAIN ids |->
                  [c \in {"addon_id", MetricCols[k]} |->
                      IF c = "addon_id" THEN ids[j] ELSE Val(Token(k, j))]] ]

EmptyTable == [columns |-> <<>>, rows |-> <<>>]

DfsInputs ==
    { [k \in DOMAIN s |-> MakeTable(k, s[k])] :
        s \in SeqsUpTo(SeqsUpTo(Addons, MaxRows), MaxTables) }

\* An inner join: a left row without a match is dropped.
InnerJoin(lt, rt) ==
    LET added == LET NotKey(c) == c # "addon_id" IN SelectSeq(rt.columns, NotKey)
        cols == lt.columns \o added
        Merge(lrow, rrow) ==
            [c \in Range(cols) |-> IF c \in Range(lt.columns) THEN lrow[c] ELSE rrow[c]]
        RowsFor(lrow) ==
            LET Match(r) == r["addon_id"] = lrow["addon_id"]
                m == SelectSeq(rt.rows, Match)
            IN  [i \in DOMAIN m |-> Merge(lrow, m[i])]
    IN  [ columns |-> cols,
          rows |-> Flatten([i \in DOMAIN lt.rows |-> RowsFor(lt.rows[i])]) ]

\* A full outer join: the right rows without a match are kept too.
OuterJoin(lt, rt) ==
    LET added == LET NotKey(c) == c # "addon_id" IN SelectSeq(rt.columns, NotKey)
        cols == lt.columns \o added
        Merge(lrow, rrow) ==
            [c \in Range(cols) |-> IF c \in Range(lt.columns) THEN lrow[c] ELSE rrow[c]]
        Unmatched(lrow) ==
            [c \in Range(cols) |-> IF c \in Range(lt.columns) THEN lrow[c] ELSE Null]
        RowsFor(lrow) ==
            LET Match(r) == r["addon_id"] = lrow["addon_id"]
                m == SelectSeq(rt.rows, Match)
            IN  IF m = <<>> THEN <<Unmatched(lrow)>>
                ELSE [i \in DOMAIN m |-> Merge(lrow, m[i])]
        Lone(r) == \A i \in DOMAIN lt.rows : lt.rows[i]["addon_id"] # r["addon_id"]
        RightOnly(rrow) ==
            [c \in Range(cols) |->
                IF c \in Range(rt.columns) THEN rrow[c] ELSE Null]
        lone == SelectSeq(rt.rows, Lone)
    IN  [ columns |-> cols,
          rows |-> Flatten([i \in DOMAIN lt.rows |-> RowsFor(lt.rows[i])])
                   \o [i \in DOMAIN lone |-> RightOnly(lone[i])] ]

\* A left join that fills the columns of a missing match with 0 instead of null.
ZeroFillJoin(lt, rt) ==
    LET added == LET NotKey(c) == c # "addon_id" IN SelectSeq(rt.columns, NotKey)
        cols == lt.columns \o added
        Merge(lrow, rrow) ==
            [c \in Range(cols) |-> IF c \in Range(lt.columns) THEN lrow[c] ELSE rrow[c]]
        Unmatched(lrow) ==
            [c \in Range(cols) |-> IF c \in Range(lt.columns) THEN lrow[c] ELSE Val(0)]
        RowsFor(lrow) ==
            LET Match(r) == r["addon_id"] = lrow["addon_id"]
                m == SelectSeq(rt.rows, Match)
            IN  IF m = <<>> THEN <<Unmatched(lrow)>>
                ELSE [i \in DOMAIN m |-> Merge(lrow, m[i])]
    IN  [ columns |-> cols,
          rows |-> Flatten([i \in DOMAIN lt.rows |-> RowsFor(lt.rows[i])]) ]

\* Line 157: left.join(right, on="addon_id", how="left"). The key column is
\* kept once; every left row gives one row per right row with its key, or one
\* row with nulls in the right table's columns when there is none.
LeftJoin(lt, rt) ==
    LET added == LET NotKey(c) == c # "addon_id" IN SelectSeq(rt.columns, NotKey)
        cols == lt.columns \o added
        Merge(lrow, rrow) ==
            [c \in Range(cols) |-> IF c \in Range(lt.columns) THEN lrow[c] ELSE rrow[c]]
        Unmatched(lrow) ==
            [c \in Range(cols) |-> IF c \in Range(lt.columns) THEN lrow[c] ELSE Null]
        RowsFor(lrow) ==
            LET Match(r) == r["addon_id"] = lrow["addon_id"]
                m == SelectSeq(rt.rows, Match)
            IN  IF m = <<>> THEN <<Unmatched(lrow)>>
                ELSE [i \in DOMAIN m |-> Merge(lrow, m[i])]
    IN  [ columns |-> cols,
          rows |-> Flatten([i \in DOMAIN lt.rows |-> RowsFor(lt.rows[i])]) ]

JnIdle == jn_pc = "idle" /\ dfs = <<>> /\ left = EmptyTable /\ jn_next = 0

JnInit == jn_pc = "call" /\ dfs \in DfsInputs /\ left = EmptyTable /\ jn_next = 0

\* A start whose loop runs over dfs instead of dfs[1:], so that the driving
\* table is joined with itself.
JoinStartOverAll ==
    /\ jn_pc = "call"
    /\ IF dfs = <<>>
       THEN jn_pc' = "IndexError" /\ UNCHANGED <<left, jn_next>>
       ELSE jn_pc' = "loop" /\ left' = dfs[1] /\ jn_next' = 1
    /\ UNCHANGED <<dfs, hm_vars, ga_vars, tt_vars, le_vars, tr_vars>>

\* Line 155: left = dfs[0], an IndexError on an empty list.
JoinStart ==
    /\ jn_pc = "call"
    /\ IF dfs = <<>>
       THEN jn_pc' = "IndexError" /\ UNCHANGED <<left, jn_next>>
       ELSE jn_pc' = "loop" /\ left' = dfs[1] /\ jn_next' = 2
    /\ UNCHANGED <<dfs, hm_vars, ga_vars, tt_vars, le_vars, tr_vars>>

\* A loop body that joins the driving table, not the accumulated one:
\* dfs[0].join(right, ...).
JoinDriving(acc, ts, k) == LeftJoin(ts[1], ts[k])

\* Line 157, for right = ts[k]: the new value of left.
JoinNext(acc, ts, k) == LeftJoin(acc, ts[k])

\* Lines 155-158 as a function of the list: the fold of ts[1..n], n >= 1.
RECURSIVE JoinFirst(_, _)
JoinFirst(ts, n) ==
    IF n = 1 THEN ts[1] ELSE JoinNext(JoinFirst(ts, n - 1), ts, n)

dataframe_joiner(ts) == JoinFirst(ts, Len(ts))

\* Lines 156-157: one iteration of the loop over dfs[1:].
JoinStep ==
    /\ jn_pc = "loop"
    /\ jn_next <= Len(dfs)
    /\ left' = JoinNext(left, dfs, jn_next)
    /\ jn_next' = jn_next + 1
    /\ UNCHANGED <<jn_pc, dfs, hm_vars, ga_vars, tt_vars, le_vars, tr_vars>>

\* Line 158: return left.
JoinReturn ==
    /\ jn_pc = "loop"
    /\ jn_next > Len(dfs)
    /\ jn_pc' = "done"
    /\ UNCHANGED <<dfs, left, jn_next, hm_vars, ga_vars, tt_vars, le_vars, tr_vars>>

\* ------------------------------------------------------------------------
\* take_top_ten: the ten candidates of greatest weight.

MaxLen == 15

\* The 10 of lines 167 and 170.
TopTen == 10

Weights == {1, 2}

\* A candidate is a one-entry dict {add-on: weight}; id is its place in l.
Candidates(ws) == [i \in DOMAIN ws |-> [id |-> i, w |-> ws[i]]]

TopTenInputs == {Candidates(ws) : ws \in SeqsUpTo(Weights, MaxLen)}

\* key=lambda i: -list(i.values())[0]
SortKey(c) == 0 - c.w

\* An insertion that puts x before the elements of its own key.
InsertUnstable(srt, x) ==
    LET p == Cardinality({i \in DOMAIN srt : SortKey(srt[i]) < SortKey(x)})
    IN  SubSeq(srt, 1, p) \o <<x>> \o SubSeq(srt, p + 1, Len(srt))

\* x put into the sorted srt, behind every element whose key is not greater.
Insert(srt, x) ==
    LET p == Cardinality({i \in DOMAIN srt : SortKey(srt[i]) <= SortKey(x)})
    IN  SubSeq(srt, 1, p) \o <<x>> \o SubSeq(srt, p + 1, Len(srt))

\* sorted(s, key=SortKey): ascending in the key and stable.
RECURSIVE sorted(_)
sorted(s) ==
    IF s = <<>> THEN <<>>
    ELSE Insert(sorted(SubSeq(s, 1, Len(s) - 1)), s[Len(s)])

\* The slice s[0:n].
Slice(s, n) == SubSeq(s, 1, IF n < Len(s) THEN n ELSE Len(s))

\* Lines 167-170.
take_top_ten(cs) ==
    IF Len(cs) < TopTen THEN sorted(cs) ELSE Slice(sorted(cs), TopTen)

TtIdle == tt_pc = "idle" /\ l = <<>> /\ tt_result = <<>>

TtInit == tt_pc = "call" /\ l \in TopTenInputs /\ tt_result = <<>>

CallTakeTopTen ==
    /\ tt_pc = "call"
    /\ tt_result' = take_top_ten(l)
    /\ tt_pc' = "done"
    /\ UNCHANGED <<l, hm_vars, ga_vars, jn_vars, le_vars, tr_vars>>

\* ------------------------------------------------------------------------
\* list_expander: every item of a list with the other items of the list.

MaxSession == 4

SessionAddons == {"a", "b", "c"}

\* No filter at all.
OthersUnfiltered(s, item) == s

\* Line 203: [i for i in lis if i != item]
Others(s, item) ==
    LET Differs(i) == i # item IN SelectSeq(s, Differs)

LeIdle == le_pc = "idle" /\ lis = <<>> /\ le_next = 0 /\ list_of_lists = <<>>

\* Line 201: list_of_lists = []
LeInit ==
    /\ le_pc = "loop"
    /\ lis \in SeqsUpTo(SessionAddons, MaxSession)
    /\ le_next = 1
    /\ list_of_lists = <<>>

\* Lines 202-203: one iteration of the loop over lis.
ExpandStep ==
    /\ le_pc = "loop"
    /\ le_next <= Len(lis)
    /\ list_of_lists' =
          Append(list_of_lists, <<lis[le_next], Others(lis, lis[le_next])>>)
    /\ le_next' = le_next + 1
    /\ UNCHANGED <<le_pc, lis, hm_vars, ga_vars, jn_vars, tt_vars, tr_vars>>

\* Line 204: return list_of_lists.
ExpandReturn ==
    /\ le_pc = "loop"
    /\ le_next > Len(lis)
    /\ le_pc' = "done"
    /\ UNCHANGED <<lis, le_next, list_of_lists, hm_vars, ga_vars, jn_vars, tt_vars, tr_vars>>

\* ------------------------------------------------------------------------
\* get_trend_metrics(addons_expanded, date): the daily, weekly and monthly
\* activity of every add-on at the anchor date, as test_trend_metrics expects
\* it (dau/wau/mau are None or a count; the test expects mau = 2 for add-ons
\* whose dau and wau are 1).

MaxTrendRecords == 2

\* The lengths in days of the three windows, which end at the anchor date.
DauDays == 1
WauDays == 7
MauDays == 30

TrendClients == {"c1", "c2"}

\* The age of a record: anchor date - submission date, in days.
Ages == {0, 6, 7, 10, 29, 30}

TrendRecords == [addon_id : Addons, client_id : TrendClients, age : Ages]

\* A window that reaches one day too far back.
InWindowWide(r, days) == r.age >= 0 /\ r.age <= days

\* The record is dated within the `days` days that end at the anchor date.
InWindow(r, days) == r.age >= 0 /\ r.age <= days - 1

\* The clients of add-on a that are active in the window.
ActiveClients(recs, a, days) ==
    {recs[i].client_id : i \in {j \in DOMAIN recs :
                                   recs[j].addon_id = a /\ InWindow(recs[j], days)}}

\* None when nobody is active, the count otherwise.
TrendCell(recs, a, days) ==
    LET n == Cardinality(ActiveClients(recs, a, days))
    IN  IF n = 0 THEN Null ELSE Val(n)

get_trend_metrics(recs) ==
    [a \in {recs[i].addon_id : i \in DOMAIN recs} |->
        [ dau |-> TrendCell(recs, a, DauDays),
          wau |-> TrendCell(recs, a, WauDays),
          mau |-> TrendCell(recs, a, MauDays) ]]

TrIdle == tr_pc = "idle" /\ tr_records = <<>> /\ tr_result = <<>>

TrInit ==
    /\ tr_pc = "call"
    /\ tr_records \in SeqsUpTo(TrendRecords, MaxTrendRecords)
    /\ tr_result = <<>>

CallGetTrendMetrics ==
    /\ tr_pc = "call"
    /\ tr_result' = get_trend_metrics(tr_records)
    /\ tr_pc' = "done"
    /\ UNCHANGED <<tr_records, hm_vars, ga_vars, jn_vars, tt_vars, le_vars>>

\* ------------------------------------------------------------------------
\* The specifications: one per helper, and the one of a run of any of them.

InitHist == HmInit /\ GaIdle /\ JnIdle /\ TtIdle /\ LeIdle /\ TrIdle

SpecHist == InitHist /\ [][CallHistogramMean]_vars

InitHistAvg == HmIdle /\ GaInit /\ JnIdle /\ TtIdle /\ LeIdle /\ TrIdle

SpecHistAvg == InitHistAvg /\ [][CallGetHistAvg]_vars

InitJoin == HmIdle /\ GaIdle /\ JnInit /\ TtIdle /\ LeIdle /\ TrIdle

NextJoin == JoinStart \/ JoinStep \/ JoinReturn

SpecJoin == InitJoin /\ [][NextJoin]_vars

InitTop == HmIdle /\ GaIdle /\ JnIdle /\ TtInit /\ LeIdle /\ TrIdle

SpecTop == InitTop /\ [][CallTakeTopTen]_vars

InitExpand == HmIdle /\ GaIdle /\ JnIdle /\ TtIdle /\ LeInit /\ TrIdle

NextExpand == ExpandStep \/ ExpandReturn

SpecExpand == InitExpand /\ [][NextExpand]_vars

InitTrend == HmIdle /\ GaIdle /\ JnIdle /\ TtIdle /\ LeIdle /\ TrInit

SpecTrend == InitTrend /\ [][CallGetTrendMetrics]_vars

Init == InitHist \/ InitHistAvg \/ InitJoin \/ InitTop \/ InitExpand \/ InitTrend

Next ==
    \/ CallHistogramMean
    \/ CallGetHistAvg
    \/ JoinStart
    \/ JoinStep
    \/ JoinReturn
    \/ CallTakeTopTen
    \/ ExpandStep
    \/ ExpandReturn
    \/ CallGetTrendMetrics

Spec == Init /\ [][Next]_vars

\* ------------------------------------------------------------------------
\* Claims about histogram_mean (checked under SpecHist).

\* The counts and the label * count products of a dict, from its items.
TotalCount(vals) == SumSeq([i \in DOMAIN vals.items |-> vals.items[i].v])

\* What the labels of the model denote, read off their text.
LabelNumber(k) ==
    CASE k = <<"1", "0">> -> 10
      [] k = <<"2", "0">> -> 20
      [] k = <<"1", "0", "0">> -> 100
      [] k = <<"2", "0", "0">> -> 200
      [] k = <<"-", "5">> -> 0 - 5
      [] k = <<"0">> -> 0
      [] k = <<" ", "5">> -> 5

\* The labels of the model int() rejects: "1x" and "".
NonNumericLabels == {<<"1", "x">>, <<>>}

AllNumeric(vals) == \A i \in DOMAIN vals.items : vals.items[i].k \notin NonNumericLabels

WeightedTotal(vals) ==
    SumSeq([i \in DOMAIN vals.items |-> LabelNumber(vals.items[i].k) * vals.items[i].v])

\* C4: histogram_mean returns None for a null input and for a distribution
\* (of labels int() accepts) whose counts sum to 0, the empty one included;
\* it returns a float, never None and never a division by zero, when the
\* counts sum to something else; it never returns 0 for "no data".
C4_NoneWithoutSamples ==
    hm_pc = "done" =>
        /\ values.isNone => hm_result = ReturnNone
        /\ (~values.isNone /\ AllNumeric(values) /\ TotalCount(values) = 0)
              => hm_result = ReturnNone
        /\ (~values.isNone /\ AllNumeric(values) /\ TotalCount(values) # 0)
              => hm_result.kind = "float" /\ hm_result.den # 0
        /\ hm_result.kind \in {"None", "float", "ValueError"}

\* A non-empty distribution whose counts are all 0 gave None.
C4_Witness ==
    /\ hm_pc = "done"
    /\ ~values.isNone
    /\ Len(values.items) = 2
    /\ AllNumeric(values)
    /\ TotalCount(values) = 0
    /\ hm_result = ReturnNone

\* C5: for labels int() accepts and a non-zero total count, the mean m
\* satisfies m * (sum of counts) = sum of label * count; {"10": 2, "20": 1}
\* gives 40 / 3.
C5_MeanIsWeightedAverage ==
    (hm_pc = "done" /\ ~values.isNone /\ AllNumeric(values) /\ TotalCount(values) # 0) =>
        /\ hm_result.kind = "float"
        /\ hm_result.num * TotalCount(values) = WeightedTotal(values) * hm_result.den
        /\ values.items = <<[k |-> <<"1", "0">>, v |-> 2], [k |-> <<"2", "0">>, v |-> 1]>>
              => 3 * hm_result.num = 40 * hm_result.den

\* {"10": 2, "20": 1} gave 40 / 3.
C5_Witness ==
    /\ hm_pc = "done"
    /\ values = Dict(<<[k |-> <<"1", "0">>, v |-> 2], [k |-> <<"2", "0">>, v |-> 1]>>)
    /\ hm_result.kind = "float"
    /\ 3 * hm_result.num = 40 * hm_result.den

\* C9: a non-null distribution with a label that is no integer makes
\* histogram_mean raise, wherever the label stands among the buckets; no mean
\* of the other buckets is returned.
C9_NonNumericLabelRaises ==
    (hm_pc = "done" /\ ~values.isNone /\ ~AllNumeric(values)) =>
        hm_result = RaiseValueError

\* The bad label came last, after a bucket that alone has a mean.
C9_Witness ==
    /\ hm_pc = "done"
    /\ ~values.isNone
    /\ Len(values.items) = 2
    /\ values.items[1].k \notin NonNumericLabels
    /\ values.items[1].v > 0
    /\ values.items[2].k \in NonNumericLabels
    /\ hm_result = RaiseValueError

\* ------------------------------------------------------------------------
\* Claims about get_hist_avg (checked under SpecHistAvg).

\* C2: the table get_hist_avg produces holds one row per addon_id, also when
\* the add-on appears under the histogram in several records.
C2_OneRowPerAddon ==
    (ga_pc = "done" /\ ~hist_data.failed) =>
        \A i, j \in DOMAIN hist_data.rows :
            hist_data.rows[i].addon_id = hist_data.rows[j].addon_id => i = j

\* ------------------------------------------------------------------------
\* Claims about dataframe_joiner (checked under SpecJoin).

\* The add-on ids of a table, and how often one occurs in it.
Ids(t) == {t.rows[i]["addon_id"] : i \in DOMAIN t.rows}

Count(a, t) == Cardinality({i \in DOMAIN t.rows : t.rows[i]["addon_id"] = a})

\* The tables joined so far are dfs[1..Joined].
Joined == jn_next - 1

Max1(n) == IF n < 1 THEN 1 ELSE n

\* C1 as stated: once the join is done, every addon_id of a driving table
\* (one that holds each of its ids once) is in the output exactly once,
\* whatever the other tables hold.
C1_ExactlyOnce ==
    (jn_pc = "done" /\ \A a \in Ids(dfs[1]) : Count(a, dfs[1]) = 1) =>
        \A a \in Ids(dfs[1]) : Count(a, left) = 1

\* C1 as amended: every addon_id of the driving table is in the output at
\* least once; exactly once when the driving table holds it once and every
\* other table at most once; in general as often as the driving table holds
\* it, times the number of its rows in every other table that has some.
C1_RowsMultiply ==
    jn_pc \in {"loop", "done"} =>
        \A a \in Addons :
            /\ Count(a, left) =
                  Count(a, dfs[1]) * ProdSeq([k \in 1..(Joined - 1) |->
                                                 Max1(Count(a, dfs[k + 1]))])
            /\ a \in Ids(dfs[1]) => Count(a, left) >= 1
            /\ (Count(a, dfs[1]) = 1 /\ \A k \in 2..Joined : Count(a, dfs[k]) <= 1)
                  => Count(a, left) = 1

\* An add-on the driving table holds once and the second table twice is in
\* the output twice, and another one, which no other table repeats, once.
C1_Witness ==
    /\ jn_pc = "done"
    /\ Len(dfs) >= 2
    /\ Count("x", dfs[1]) = 1 /\ Count("x", dfs[2]) = 2 /\ Count("x", left) = 2
    /\ Count("y", dfs[1]) = 1 /\ Count("y", left) = 1

\* C6: a row of the output whose addon_id has no row in a joined table holds
\* null (not 0) in that table's column, and is not dropped; where the table
\* has a row for it, the column holds the value of such a row.
C6_NullsForMissing ==
    jn_pc \in {"loop", "done"} =>
        /\ \A a \in Ids(dfs[1]) : Count(a, left) >= 1
        /\ \A i \in DOMAIN left.rows : \A k \in 1..Joined :
              LET row == left.rows[i]
                  hits == {j \in DOMAIN dfs[k].rows :
                              dfs[k].rows[j]["addon_id"] = row["addon_id"]}
              IN  IF hits = {}
                  THEN row[MetricCols[k]] = Null
                  ELSE /\ ~row[MetricCols[k]].isnull
                       /\ \E j \in hits : row[MetricCols[k]] = Val(Token(k, j))

\* "x" is in the first and the third table but not in the second: its row
\* holds null in the second table's column and the third table's value.
C6_Witness ==
    /\ jn_pc = "done"
    /\ Len(dfs) = 3
    /\ Count("x", dfs[1]) = 1 /\ Count("x", dfs[2]) = 0 /\ Count("x", dfs[3]) = 1
    /\ Count("y", dfs[2]) >= 1
    /\ \E i \in DOMAIN left.rows :
          /\ left.rows[i]["addon_id"] = "x"
          /\ left.rows[i]["m2"] = Null
          /\ ~left.rows[i]["m3"].isnull

\* C7: after every step of the fold, the addon_ids of the accumulated table
\* are those of the driving table dfs[0]: an id only other tables hold never
\* gets in.
C7_IdsOfDrivingTable ==
    jn_pc \in {"loop", "done"} => Ids(left) = Ids(dfs[1])

\* The second table holds "y", the driving table only "x", and so does the
\* output.
C7_Witness ==
    /\ jn_pc = "done"
    /\ Len(dfs) >= 2
    /\ Ids(dfs[1]) = {"x"}
    /\ "y" \in Ids(dfs[2])
    /\ Ids(left) = {"x"}

\* C11: joining a list that holds a single table returns that table
\* unchanged: the rows of A, in their order, and the columns of A.
C11_SingleTableUnchanged ==
    (jn_pc = "done" /\ Len(dfs) = 1) =>
        /\ left.columns = dfs[1].columns
        /\ left.rows = dfs[1].rows
        /\ left.columns = <<"addon_id", "m1">>
        /\ Len(left.rows) = Len(dfs[1].rows)

\* A single table of two rows, one add-on twice, came back as it was.
C11_Witness ==
    /\ jn_pc = "done"
    /\ Len(dfs) = 1
    /\ Len(dfs[1].rows) = 2
    /\ Count("x", dfs[1]) = 2
    /\ left = dfs[1]

\* ts with the tables at places i and j exchanged.
Swapped(ts, i, j) ==
    [k \in DOMAIN ts |-> IF k = i THEN ts[j] ELSE IF k = j THEN ts[i] ELSE ts[k]]

\* How often the row r occurs in the table t.
RowCount(r, t) == Cardinality({i \in DOMAIN t.rows : t.rows[i] = r})

\* The same columns in some order, and every row (its addon_id and the value
\* of every column) as often in the one table as in the other.
SameRows(t, u) ==
    /\ Range(t.columns) = Range(u.columns)
    /\ Len(t.columns) = Len(u.columns)
    /\ Len(t.rows) = Len(u.rows)
    /\ \A r \in Range(t.rows) \cup Range(u.rows) : RowCount(r, t) = RowCount(r, u)

\* C12: with the driving table fixed and no column shared but the key, the
\* rows dataframe_joiner gives do not depend on the order of the other
\* tables: exchanging two of them gives the same column values for the same
\* addon_ids, each row as often (only the order of the columns may differ).
C12_OrderOfOtherTables ==
    jn_pc = "done" =>
        \A i, j \in 2..Len(dfs) :
            i < j => SameRows(left, dataframe_joiner(Swapped(dfs, i, j)))

\* [A, B, C] and [A, C, B], where B holds "x" twice and not "y", C holds "y"
\* and not "x": the same rows, the columns in another order.
C12_Witness ==
    /\ jn_pc = "done"
    /\ Len(dfs) = 3
    /\ Ids(dfs[1]) = {"x", "y"}
    /\ Count("x", dfs[2]) = 2 /\ Count("y", dfs[2]) = 0
    /\ Count("x", dfs[3]) = 0 /\ Count("y", dfs[3]) = 1
    /\ Len(left.rows) = 3
    /\ SameRows(left, dataframe_joiner(<<dfs[1], dfs[3], dfs[2]>>))
    /\ left.columns # dataframe_joiner(<<dfs[1], dfs[3], dfs[2]>>).columns

\* ------------------------------------------------------------------------
\* Claims about take_top_ten (checked under SpecTop).

Min(a, b) == IF a < b THEN a ELSE b

\* The candidates of l the result leaves out.
Omitted == {i \in DOMAIN l : \A j \in DOMAIN tt_result : tt_result[j] # l[i]}

\* C3: take_top_ten returns min(len(l), 10) elements of l by descending
\* weight, candidates of equal weight in the order they had in l; no
\* candidate left out is heavier than a returned one, and one as heavy as a
\* returned one stood behind it in l.
C3_TopTenStable ==
    tt_pc = "done" =>
        /\ Len(tt_result) = Min(Len(l), 10)
        /\ \A j \in DOMAIN tt_result : \E i \in DOMAIN l : tt_result[j] = l[i]
        /\ \A j, k \in DOMAIN tt_result :
              j < k => /\ tt_result[j] # tt_result[k]
                       /\ tt_result[j].w >= tt_result[k].w
                       /\ tt_result[j].w = tt_result[k].w => tt_result[j].id < tt_result[k].id
        /\ \A i \in Omitted : \A j \in DOMAIN tt_result :
              /\ l[i].w <= tt_result[j].w
              /\ l[i].w = tt_result[j].w => tt_result[j].id < l[i].id

\* 15 candidates with ties at both weights, a heavy one behind a light one
\* in l: 10 came back and a tie was cut by the order in l.
C3_Witness ==
    /\ tt_pc = "done"
    /\ Len(l) = 15
    /\ Len(tt_result) = 10
    /\ l[1].w = 1 /\ l[2].w = 2 /\ l[3].w = 1 /\ l[Len(l)].w = 2
    /\ tt_result[1] = l[2]
    /\ tt_result[10].w = 1
    /\ Omitted # {} /\ \E i \in Omitted : l[i].w = 1

\* ------------------------------------------------------------------------
\* Claims about list_expander (checked under SpecExpand).

\* s is t with some of its elements left out.
RECURSIVE IsSubsequence(_, _)
IsSubsequence(s, t) ==
    IF s = <<>> THEN TRUE
    ELSE IF t = <<>> THEN FALSE
    ELSE IF s[1] = t[1] THEN IsSubsequence(Tail(s), Tail(t))
    ELSE IsSubsequence(s, Tail(t))

Occurrences(v, s) == Cardinality({i \in DOMAIN s : s[i] = v})

RecordsWithin(a, oldest) ==
    {i \in DOMAIN tr_records :
        tr_records[i].addon_id = a /\ tr_records[i].age \in 0..oldest}

\* A presence flag: 1 when the set is not empty, None otherwise.
Flag(S) == IF S = {} THEN Null ELSE Val(1)

CountOf(cell, S) ==
    IF S = {} THEN cell = Null
    ELSE ~cell.isnull /\ cell.v >= 1 /\ cell.v <= Cardinality(S)

====
